---------------------------- MODULE Spec2Model ----------------------------
(***************************************************************************)
(* Marching-squares contouring (contour-rs): the case table, the fragment  *)
(* store with its two lookup maps, the three-phase sweep of                *)
(* IsoRingBuilder::compute, and ContourBuilder::contours / contour_rings.  *)
(*                                                                         *)
(* Units.  Ring coordinates are held doubled (a point (x, y) of the code   *)
(* is <<2x, 2y>> here), so the half-integer lattice of the case table is   *)
(* an integer lattice.  Samples and thresholds are held doubled as well    *)
(* (the 0.5 of the tests is 1, their 1.0 is 2): a common factor changes    *)
(* neither a comparison sample >= threshold nor the interpolation ratio.   *)
(***************************************************************************)
EXTENDS Integers, Sequences, FiniteSets, TLC

(***************************************************************************)
(* Bounds of the explored inputs.                                          *)
(***************************************************************************)
MaxDim == 3
MaxWork == 9
MaxThresholds == 2
MaxBadLen == 3
MaxCalls == 2
MaxSmooth == 4
MaxStitch == 6

\* u32: the type of dx, dy and of both sides of the dimension check.
WordBits == 32

Samples == {0, 1}
Levels == {0, 1}

(***************************************************************************)
(* Small helpers.                                                          *)
(***************************************************************************)
Last(s) == s[Len(s)]

Abs(n) == IF n < 0 THEN -n ELSE n

(***************************************************************************)
(* CASES: code -> directed segments, coordinates doubled.  CASES[c + 1] is *)
(* the entry of code c.                                                    *)
(***************************************************************************)
CASES ==
  << << >>,
     << << <<2, 3>>, <<1, 2>> >> >>,
     << << <<3, 2>>, <<2, 3>> >> >>,
     << << <<3, 2>>, <<1, 2>> >> >>,
     << << <<2, 1>>, <<3, 2>> >> >>,
     << << <<2, 3>>, <<1, 2>> >>, << <<2, 1>>, <<3, 2>> >> >>,
     << << <<2, 1>>, <<2, 3>> >> >>,
     << << <<2, 1>>, <<1, 2>> >> >>,
     << << <<1, 2>>, <<2, 1>> >> >>,
     << << <<2, 3>>, <<2, 1>> >> >>,
     << << <<1, 2>>, <<2, 1>> >>, << <<3, 2>>, <<2, 3>> >> >>,
     << << <<3, 2>>, <<2, 1>> >> >>,
     << << <<1, 2>>, <<3, 2>> >> >>,
     << << <<2, 3>>, <<3, 2>> >> >>,
     << << <<1, 2>>, <<2, 3>> >> >>,
     << >> >>

(***************************************************************************)
(* Slab<Fragment>: a dense vector of slots, each occupied by a value or    *)
(* vacant and linked into a free list headed by next.                      *)
(***************************************************************************)
SlabNew == [entries |-> << >>, next |-> 0]

Vacant(n) == [tag |-> "vacant", next |-> n]

Occupied(v) == [tag |-> "occupied", val |-> v]

SlabContains(s, key) ==
  /\ key + 1 \in 1..Len(s.entries)
  /\ s.entries[key + 1].tag = "occupied"

SlabGet(s, key) == s.entries[key + 1].val

SlabKey(s) == s.next

SlabInsert(s, v) ==
  IF s.next = Len(s.entries)
  THEN [entries |-> Append(s.entries, Occupied(v)), next |-> s.next + 1]
  ELSE [entries |-> [s.entries EXCEPT ![s.next + 1] = Occupied(v)],
        next |-> s.entries[s.next + 1].next]

SlabRemove(s, key) ==
  [entries |-> [s.entries EXCEPT ![key + 1] = Vacant(s.next)], next |-> key]

SlabSet(s, key, v) == [s EXCEPT !.entries[key + 1] = Occupied(v)]

SlabLive(s) == {k \in 0..(Len(s.entries) - 1) : SlabContains(s, k)}

(***************************************************************************)
(* FxHashMap<usize, usize> as a function with a finite domain.             *)
(***************************************************************************)
MapNew == << >>

MapHas(m, k) == k \in DOMAIN m

MapInsert(m, k, v) == (k :> v) @@ m

MapRemove(m, k) == [j \in (DOMAIN m) \ {k} |-> m[j]]

(***************************************************************************)
(* IsoRingBuilder.                                                         *)
(***************************************************************************)
IsoRingBuilderNew(w, h) ==
  [fragment_by_start |-> MapNew, fragment_by_end |-> MapNew, f |-> SlabNew,
   dx |-> w, dy |-> h, is_empty |-> TRUE]

\* A clear that only sets the flag.
ClearFlagOnly(b) == [b EXCEPT !.is_empty = TRUE]

Clear(b) ==
  [b EXCEPT !.f = SlabNew, !.fragment_by_end = MapNew,
            !.fragment_by_start = MapNew, !.is_empty = TRUE]

\* A key whose rows are one point too narrow.
IndexNarrow(b, point) ==
  LET v == point[1] + point[2] * b.dx * 2
  IN  IF v < 0 THEN 0 ELSE v

\* The f64 -> usize cast saturates: a negative value becomes 0.
Index(b, point) ==
  LET v == point[1] + point[2] * (b.dx + 1) * 2
  IN  IF v < 0 THEN 0 ELSE v

Fragment(s, e, r) == [start |-> s, end |-> e, ring |-> r]


(***************************************************************************)
(* stitch: one directed segment of cell (x, y) is joined to the open       *)
(* fragments.  The outcome is the builder, the ring list and a status:     *)
(* "Ok", "Unexpected" (the error value) or "panic" (Slab::remove of a key  *)
(* that is not occupied).  An error leaves the map removals done before it *)
(* in place, as the ? operator does.                                       *)
(***************************************************************************)
StitchOut(b, result, status) == [b |-> b, result |-> result, status |-> status]

\* A join that closes a ring without pushing the segment's end.
StitchJoinOpen(b, start_index, end_index, end, result) ==
  LET f_ix == b.fragment_by_end[start_index]
      g_ix == b.fragment_by_start[end_index]
      b1 == [b EXCEPT !.fragment_by_end = MapRemove(@, start_index),
                      !.fragment_by_start = MapRemove(@, end_index)]
  IN  IF f_ix = g_ix
      THEN IF ~SlabContains(b1.f, f_ix)
           THEN StitchOut(b1, result, "panic")
           ELSE LET f == SlabGet(b1.f, f_ix)
                IN  StitchOut([b1 EXCEPT !.f = SlabRemove(@, f_ix)],
                              Append(result, f.ring), "Ok")
      ELSE IF ~SlabContains(b1.f, f_ix) \/ ~SlabContains(b1.f, g_ix)
           THEN StitchOut(b1, result, "panic")
           ELSE LET f == SlabGet(b1.f, f_ix)
                    g == SlabGet(b1.f, g_ix)
                    s2 == SlabRemove(SlabRemove(b1.f, f_ix), g_ix)
                    ix == SlabKey(s2)
                IN  StitchOut(
                      [b1 EXCEPT
                         !.f = SlabInsert(s2, Fragment(f.start, g.end, f.ring \o g.ring)),
                         !.fragment_by_start = MapInsert(@, f.start, ix),
                         !.fragment_by_end = MapInsert(@, g.end, ix)],
                      result, "Ok")

\* A join that puts the points of the second fragment first.
StitchJoinSwapped(b, start_index, end_index, end, result) ==
  LET f_ix == b.fragment_by_end[start_index]
      g_ix == b.fragment_by_start[end_index]
      b1 == [b EXCEPT !.fragment_by_end = MapRemove(@, start_index),
                      !.fragment_by_start = MapRemove(@, end_index)]
  IN  IF f_ix = g_ix
      THEN IF ~SlabContains(b1.f, f_ix)
           THEN StitchOut(b1, result, "panic")
           ELSE LET f == SlabGet(b1.f, f_ix)
                IN  StitchOut([b1 EXCEPT !.f = SlabRemove(@, f_ix)],
                              Append(result, Append(f.ring, end)), "Ok")
      ELSE IF ~SlabContains(b1.f, f_ix) \/ ~SlabContains(b1.f, g_ix)
           THEN StitchOut(b1, result, "panic")
           ELSE LET f == SlabGet(b1.f, f_ix)
                    g == SlabGet(b1.f, g_ix)
                    s2 == SlabRemove(SlabRemove(b1.f, f_ix), g_ix)
                    ix == SlabKey(s2)
                IN  StitchOut(
                      [b1 EXCEPT
                         !.f = SlabInsert(s2, Fragment(f.start, g.end, g.ring \o f.ring)),
                         !.fragment_by_start = MapInsert(@, f.start, ix),
                         !.fragment_by_end = MapInsert(@, g.end, ix)],
                      result, "Ok")

\* A join that leaves the fragment it closes in the slab.
StitchJoinLeaves(b, start_index, end_index, end, result) ==
  LET f_ix == b.fragment_by_end[start_index]
      g_ix == b.fragment_by_start[end_index]
      b1 == [b EXCEPT !.fragment_by_end = MapRemove(@, start_index),
                      !.fragment_by_start = MapRemove(@, end_index)]
  IN  IF f_ix = g_ix
      THEN IF ~SlabContains(b1.f, f_ix)
           THEN StitchOut(b1, result, "panic")
           ELSE LET f == SlabGet(b1.f, f_ix)
                IN  StitchOut(b1,                                    
                              Append(result, Append(f.ring, end)), "Ok")
      ELSE IF ~SlabContains(b1.f, f_ix) \/ ~SlabContains(b1.f, g_ix)
           THEN StitchOut(b1, result, "panic")
           ELSE LET f == SlabGet(b1.f, f_ix)
                    g == SlabGet(b1.f, g_ix)
                    s2 == SlabRemove(SlabRemove(b1.f, f_ix), g_ix)
                    ix == SlabKey(s2)
                IN  StitchOut(
                      [b1 EXCEPT
                         !.f = SlabInsert(s2, Fragment(f.start, g.end, f.ring \o g.ring)),
                         !.fragment_by_start = MapInsert(@, f.start, ix),
                         !.fragment_by_end = MapInsert(@, g.end, ix)],
                      result, "Ok")

\* start matches a fragment's end and end matches a fragment's start.
StitchJoin(b, start_index, end_index, end, result) ==
  LET f_ix == b.fragment_by_end[start_index]
      g_ix == b.fragment_by_start[end_index]
      b1 == [b EXCEPT !.fragment_by_end = MapRemove(@, start_index),
                      !.fragment_by_start = MapRemove(@, end_index)]
  IN  IF f_ix = g_ix
      THEN IF ~SlabContains(b1.f, f_ix)
           THEN StitchOut(b1, result, "panic")
           ELSE LET f == SlabGet(b1.f, f_ix)
                IN  StitchOut([b1 EXCEPT !.f = SlabRemove(@, f_ix)],
                              Append(result, Append(f.ring, end)), "Ok")
      ELSE IF ~SlabContains(b1.f, f_ix) \/ ~SlabContains(b1.f, g_ix)
           THEN StitchOut(b1, result, "panic")
           ELSE LET f == SlabGet(b1.f, f_ix)
                    g == SlabGet(b1.f, g_ix)
                    s2 == SlabRemove(SlabRemove(b1.f, f_ix), g_ix)
                    ix == SlabKey(s2)
                IN  StitchOut(
                      [b1 EXCEPT
                         !.f = SlabInsert(s2, Fragment(f.start, g.end, f.ring \o g.ring)),
                         !.fragment_by_start = MapInsert(@, f.start, ix),
                         !.fragment_by_end = MapInsert(@, g.end, ix)],
                      result, "Ok")

\* An append that leaves the entry of the fragment's old end in the map.
StitchAppendStale(b, start_index, end_index, end, result) ==
  LET f_ix == b.fragment_by_end[start_index]
      b1 == b
  IN  IF ~SlabContains(b1.f, f_ix)
      THEN StitchOut(b1, result, "Unexpected")
      ELSE LET f == SlabGet(b1.f, f_ix)
           IN  StitchOut(
                 [b1 EXCEPT
                    !.f = SlabSet(@, f_ix, Fragment(f.start, end_index, Append(f.ring, end))),
                    !.fragment_by_end = MapInsert(@, end_index, f_ix)],
                 result, "Ok")

\* only start matches a fragment's end: the fragment grows at its end.
StitchAppend(b, start_index, end_index, end, result) ==
  LET f_ix == b.fragment_by_end[start_index]
      b1 == [b EXCEPT !.fragment_by_end = MapRemove(@, start_index)]
  IN  IF ~SlabContains(b1.f, f_ix)
      THEN StitchOut(b1, result, "Unexpected")
      ELSE LET f == SlabGet(b1.f, f_ix)
           IN  StitchOut(
                 [b1 EXCEPT
                    !.f = SlabSet(@, f_ix, Fragment(f.start, end_index, Append(f.ring, end))),
                    !.fragment_by_end = MapInsert(@, end_index, f_ix)],
                 result, "Ok")

\* A prepend that goes on when the fragment is missing.
StitchPrependSilent(b, start_index, end_index, start, result) ==
  LET f_ix == b.fragment_by_start[end_index]
      b1 == [b EXCEPT !.fragment_by_start = MapRemove(@, end_index)]
  IN  IF ~SlabContains(b1.f, f_ix)
      THEN StitchOut(b1, result, "Ok")
      ELSE LET f == SlabGet(b1.f, f_ix)
           IN  StitchOut(
                 [b1 EXCEPT
                    !.f = SlabSet(@, f_ix, Fragment(start_index, f.end, <<start>> \o f.ring)),
                    !.fragment_by_start = MapInsert(@, start_index, f_ix)],
                 result, "Ok")

\* only end matches a fragment's start: the fragment grows at its front.
StitchPrepend(b, start_index, end_index, start, result) ==
  LET f_ix == b.fragment_by_start[end_index]
      b1 == [b EXCEPT !.fragment_by_start = MapRemove(@, end_index)]
  IN  IF ~SlabContains(b1.f, f_ix)
      THEN StitchOut(b1, result, "Unexpected")
      ELSE LET f == SlabGet(b1.f, f_ix)
           IN  StitchOut(
                 [b1 EXCEPT
                    !.f = SlabSet(@, f_ix, Fragment(start_index, f.end, <<start>> \o f.ring)),
                    !.fragment_by_start = MapInsert(@, start_index, f_ix)],
                 result, "Ok")

\* A new fragment with its two points the wrong way round.
StitchNewReversed(b, start_index, end_index, start, end, result) ==
  LET ix == SlabKey(b.f)
  IN  StitchOut(
        [b EXCEPT !.f = SlabInsert(@, Fragment(start_index, end_index, <<end, start>>)),
                  !.fragment_by_start = MapInsert(@, start_index, ix),
                  !.fragment_by_end = MapInsert(@, end_index, ix)],
        result, "Ok")

\* neither matches: a new fragment of the segment's two points.
StitchNew(b, start_index, end_index, start, end, result) ==
  LET ix == SlabKey(b.f)
  IN  StitchOut(
        [b EXCEPT !.f = SlabInsert(@, Fragment(start_index, end_index, <<start, end>>)),
                  !.fragment_by_start = MapInsert(@, start_index, ix),
                  !.fragment_by_end = MapInsert(@, end_index, ix)],
        result, "Ok")

Stitch(b, line, x, y, result) ==
  LET start == <<line[1][1] + 2 * x, line[1][2] + 2 * y>>
      end == <<line[2][1] + 2 * x, line[2][2] + 2 * y>>
      start_index == Index(b, start)
      end_index == Index(b, end)
  IN  IF MapHas(b.fragment_by_end, start_index)
      THEN IF MapHas(b.fragment_by_start, end_index)
           THEN StitchJoin(b, start_index, end_index, end, result)
           ELSE StitchAppend(b, start_index, end_index, end, result)
      ELSE IF MapHas(b.fragment_by_start, end_index)
           THEN StitchPrepend(b, start_index, end_index, start, result)
           ELSE StitchNew(b, start_index, end_index, start, end, result)

(***************************************************************************)
(* compute, as a step function on the sweep's state sw: the builder b, the *)
(* ring list result, the loop variables x, y, the rolling corner bits      *)
(* t0..t3, the segments of the current cell still to stitch (pending, of   *)
(* cell <<cx, cy>>, whose code was `code`) and the position pc.  One step   *)
(* reads the samples of                                                    *)
(* one cell and looks its code up, or stitches one pending segment.        *)
(***************************************************************************)
\* values[ix] >= threshold as a bit; ix is the 0-based index of the code.
InBounds(values, ix) == ix >= 0 /\ ix < Len(values)

\* A strict comparison.
BitStrict(values, ix, threshold) == IF values[ix + 1] > threshold THEN 1 ELSE 0

Bit(values, ix, threshold) == IF values[ix + 1] >= threshold THEN 1 ELSE 0

SweepNew(b) ==
  [pc |-> "start", b |-> b, result |-> << >>, x |-> -1, y |-> -1,
   t0 |-> 0, t1 |-> 0, t2 |-> 0, t3 |-> 0,
   pending |-> << >>, cx |-> -1, cy |-> -1, code |-> 0, status |-> "Ok"]

\* A lookup that turns the segment of code 6 round.
LookupBackwards(sw, code) ==
  [sw EXCEPT !.pending = [k \in 1..Len(CASES[code + 1]) |->
                            IF code = 6
                            THEN <<CASES[code + 1][k][2], CASES[code + 1][k][1]>>
                            ELSE CASES[code + 1][k]],
             !.code = code, !.cx = sw.x, !.cy = sw.y]

\* A lookup one entry off in the table.
LookupOffByOne(sw, code) ==
  [sw EXCEPT !.pending = CASES[((code + 1) % 16) + 1], !.code = code,
             !.cx = sw.x, !.cy = sw.y]

\* A lookup that takes the segments for the cell one column further.
LookupShifted(sw, code) ==
  [sw EXCEPT !.pending = CASES[code + 1], !.code = code, !.cx = sw.x + 1, !.cy = sw.y]

\* A lookup that takes each saddle for the other.
LookupOtherSaddle(sw, code) ==
  [sw EXCEPT !.pending = CASES[(IF code \in {5, 10} THEN 15 - code ELSE code) + 1],
             !.code = code, !.cx = sw.x, !.cy = sw.y]

\* The segments of `code` become pending for the cell the loop is at.
Lookup(sw, code) ==
  [sw EXCEPT !.pending = CASES[code + 1], !.code = code, !.cx = sw.x, !.cy = sw.y]

Panic(sw) == [sw EXCEPT !.status = "panic"]

SweepStart(sw, values, threshold) ==
  LET b0 == IF ~sw.b.is_empty THEN Clear(sw.b) ELSE sw.b
      s0 == [sw EXCEPT !.b = b0, !.result = << >>, !.x = -1, !.y = -1]
  IN  IF ~InBounds(values, 0) THEN Panic(s0)
      ELSE LET s1 == [s0 EXCEPT !.t1 = Bit(values, 0, threshold)]
           IN  [Lookup(s1, s1.t1 * 2) EXCEPT !.x = 0, !.pc = "first_row"]

SweepFirstRow(sw, values, threshold) ==
  IF sw.x < sw.b.dx - 1
  THEN IF ~InBounds(values, sw.x + 1) THEN Panic(sw)
       ELSE LET s1 == [sw EXCEPT !.t0 = sw.t1, !.t1 = Bit(values, sw.x + 1, threshold)]
            IN  [Lookup(s1, s1.t0 + s1.t1 * 2) EXCEPT !.x = sw.x + 1]
  ELSE [Lookup(sw, sw.t1) EXCEPT !.y = sw.y + 1, !.pc = "rows"]

\* A start of a row that reads the last row one row too far.
SweepRowsBeyond(sw, values, threshold) ==
  LET dx == sw.b.dx
      s0 == [sw EXCEPT !.x = -1]
  IN  IF sw.y < sw.b.dy - 1
      THEN IF ~InBounds(values, sw.y * dx + dx) \/ ~InBounds(values, sw.y * dx)
           THEN Panic(s0)
           ELSE LET s1 == [s0 EXCEPT !.t1 = Bit(values, sw.y * dx + dx, threshold),
                                     !.t2 = Bit(values, sw.y * dx, threshold)]
                IN  [Lookup(s1, s1.t1 * 2 + s1.t2 * 4) EXCEPT !.x = 0, !.pc = "row"]
      ELSE IF ~InBounds(values, sw.y * dx + dx) THEN Panic(s0)
           ELSE LET s1 == [s0 EXCEPT !.t2 = Bit(values, sw.y * dx + dx, threshold)]
                IN  [Lookup(s1, s1.t2 * 4) EXCEPT !.x = 0, !.pc = "last_row"]

SweepRows(sw, values, threshold) ==
  LET dx == sw.b.dx
      s0 == [sw EXCEPT !.x = -1]
  IN  IF sw.y < sw.b.dy - 1
      THEN IF ~InBounds(values, sw.y * dx + dx) \/ ~InBounds(values, sw.y * dx)
           THEN Panic(s0)
           ELSE LET s1 == [s0 EXCEPT !.t1 = Bit(values, sw.y * dx + dx, threshold),
                                     !.t2 = Bit(values, sw.y * dx, threshold)]
                IN  [Lookup(s1, s1.t1 * 2 + s1.t2 * 4) EXCEPT !.x = 0, !.pc = "row"]
      ELSE IF ~InBounds(values, sw.y * dx) THEN Panic(s0)
           ELSE LET s1 == [s0 EXCEPT !.t2 = Bit(values, sw.y * dx, threshold)]
                IN  [Lookup(s1, s1.t2 * 4) EXCEPT !.x = 0, !.pc = "last_row"]

\* A row whose loop leaves t3 as it was instead of rolling t2 into it.
SweepRowStale(sw, values, threshold) ==
  LET dx == sw.b.dx
  IN  IF sw.x < dx - 1
      THEN IF \/ ~InBounds(values, sw.y * dx + dx + sw.x + 1)
              \/ ~InBounds(values, sw.y * dx + sw.x + 1)
           THEN Panic(sw)
           ELSE LET s1 == [sw EXCEPT
                             !.t0 = sw.t1,
                             !.t1 = Bit(values, sw.y * dx + dx + sw.x + 1, threshold),
                             !.t2 = Bit(values, sw.y * dx + sw.x + 1, threshold)]
                IN  [Lookup(s1, s1.t0 + s1.t1 * 2 + s1.t2 * 4 + s1.t3 * 8)
                       EXCEPT !.x = sw.x + 1]
      ELSE [Lookup(sw, sw.t1 + sw.t2 * 8) EXCEPT !.y = sw.y + 1, !.pc = "rows"]

SweepRow(sw, values, threshold) ==
  LET dx == sw.b.dx
  IN  IF sw.x < dx - 1
      THEN IF \/ ~InBounds(values, sw.y * dx + dx + sw.x + 1)
              \/ ~InBounds(values, sw.y * dx + sw.x + 1)
           THEN Panic(sw)
           ELSE LET s1 == [sw EXCEPT
                             !.t0 = sw.t1,
                             !.t1 = Bit(values, sw.y * dx + dx + sw.x + 1, threshold),
                             !.t3 = sw.t2,
                             !.t2 = Bit(values, sw.y * dx + sw.x + 1, threshold)]
                IN  [Lookup(s1, s1.t0 + s1.t1 * 2 + s1.t2 * 4 + s1.t3 * 8)
                       EXCEPT !.x = sw.x + 1]
      ELSE [Lookup(sw, sw.t1 + sw.t2 * 8) EXCEPT !.y = sw.y + 1, !.pc = "rows"]

\* A last row that takes its last cell for an empty one.
SweepLastRowShort(sw, values, threshold) ==
  LET dx == sw.b.dx
  IN  IF sw.x < dx - 1
      THEN IF ~InBounds(values, sw.y * dx + sw.x + 1) THEN Panic(sw)
           ELSE LET s1 == [sw EXCEPT !.t3 = sw.t2,
                                     !.t2 = Bit(values, sw.y * dx + sw.x + 1, threshold)]
                IN  [Lookup(s1, s1.t2 * 4 + s1.t3 * 8) EXCEPT !.x = sw.x + 1]
      ELSE [Lookup(sw, 0) EXCEPT !.pc = "finish"]

SweepLastRow(sw, values, threshold) ==
  LET dx == sw.b.dx
  IN  IF sw.x < dx - 1
      THEN IF ~InBounds(values, sw.y * dx + sw.x + 1) THEN Panic(sw)
           ELSE LET s1 == [sw EXCEPT !.t3 = sw.t2,
                                     !.t2 = Bit(values, sw.y * dx + sw.x + 1, threshold)]
                IN  [Lookup(s1, s1.t2 * 4 + s1.t3 * 8) EXCEPT !.x = sw.x + 1]
      ELSE [Lookup(sw, sw.t2 * 8) EXCEPT !.pc = "finish"]

SweepFinish(sw) == [sw EXCEPT !.b.is_empty = FALSE, !.pc = "done"]

SweepStitch(sw) ==
  LET r == Stitch(sw.b, Head(sw.pending), sw.cx, sw.cy, sw.result)
  IN  [sw EXCEPT !.b = r.b, !.result = r.result, !.status = r.status,
                 !.pending = Tail(sw.pending)]

SweepRunning(sw) == sw.pc # "done" /\ sw.status = "Ok"

SweepStep(sw, values, threshold) ==
  IF sw.pending # << >> THEN SweepStitch(sw)
  ELSE CASE sw.pc = "start" -> SweepStart(sw, values, threshold)
         [] sw.pc = "first_row" -> SweepFirstRow(sw, values, threshold)
         [] sw.pc = "rows" -> SweepRows(sw, values, threshold)
         [] sw.pc = "row" -> SweepRow(sw, values, threshold)
         [] sw.pc = "last_row" -> SweepLastRow(sw, values, threshold)
         [] sw.pc = "finish" -> SweepFinish(sw)

\* The steps of the sweep while it stays in row y0, then all of its rows.
RECURSIVE SweepRunRow(_, _, _, _)
SweepRunRow(sw, y0, values, threshold) ==
  IF SweepRunning(sw) /\ sw.y = y0
  THEN SweepRunRow(SweepStep(sw, values, threshold), y0, values, threshold)
  ELSE sw

RECURSIVE SweepRun(_, _, _)
SweepRun(sw, values, threshold) ==
  IF SweepRunning(sw)
  THEN SweepRun(SweepRunRow(SweepStep(sw, values, threshold), sw.y, values, threshold),
                values, threshold)
  ELSE sw

\* compute(&mut self, values, threshold): the builder after the call, and
\* Ok(result), Err(Unexpected) or a panic.
Compute(b, values, threshold) == SweepRun(SweepNew(b), values, threshold)

(***************************************************************************)
(* The collaborators of crate::area, whose file is not part of the         *)
(* sources at hand: the signed area (shoelace sum over the ordered points) *)
(* and the containment of a hole in a ring.  The sign convention is the    *)
(* one the tests of lib.rs fix: the outer ring of test_simple_polygon is   *)
(* positive.  contains gives 1 (inside), -1 (outside) or 0 (on the         *)
(* boundary) for the first point of the hole that is decided.              *)
(***************************************************************************)
RECURSIVE AreaFrom(_, _)
AreaFrom(ring, i) ==
  IF i >= Len(ring) THEN 0
  ELSE ring[i][2] * ring[i + 1][1] - ring[i][1] * ring[i + 1][2] + AreaFrom(ring, i + 1)

Area(ring) ==
  IF Len(ring) = 0 THEN 0
  ELSE Last(ring)[2] * ring[1][1] - Last(ring)[1] * ring[1][2] + AreaFrom(ring, 1)

Within(p, q, r) == (p <= q /\ q <= r) \/ (r <= q /\ q <= p)

SegmentContains(a, b, c) ==
  /\ (b[1] - a[1]) * (c[2] - a[2]) = (c[1] - a[1]) * (b[2] - a[2])
  /\ Within(a[1], c[1], b[1])
  /\ Within(a[2], c[2], b[2])

\* The edge from ring[j] to ring[i] is crossed by the ray from point.
Crosses(pi, pj, point) ==
  LET d == pj[2] - pi[2]
      l == (point[1] - pi[1]) * d
      r == (pj[1] - pi[1]) * (point[2] - pi[2])
  IN  /\ (pi[2] > point[2]) # (pj[2] > point[2])
      /\ IF d > 0 THEN l < r ELSE l > r

Prev(ring, i) == IF i = 1 THEN Len(ring) ELSE i - 1

RingContains(ring, point) ==
  IF \E i \in 1..Len(ring) : SegmentContains(ring[i], ring[Prev(ring, i)], point)
  THEN 0
  ELSE IF Cardinality({i \in 1..Len(ring) :
                         Crosses(ring[i], ring[Prev(ring, i)], point)}) % 2 = 1
       THEN 1 ELSE -1

RECURSIVE ContainsFrom(_, _, _)
ContainsFrom(ring, hole, i) ==
  IF i > Len(hole) THEN 0
  ELSE LET c == RingContains(ring, hole[i])
       IN  IF c # 0 THEN c ELSE ContainsFrom(ring, hole, i + 1)

Contains(ring, hole) == ContainsFrom(ring, hole, 1)

(***************************************************************************)
(* ContourBuilder.                                                         *)
(***************************************************************************)
\* The f64 values that are not finite, held as integers beyond every
\* coordinate of the model: a division by 0.0 gives one of them.
Infinity == 2 ^ (WordBits \div 4)

NaN == Infinity + 1

IsFinite(c) == -Infinity < c /\ c < Infinity

\* Interpolate without a division when the samples are equal.
InterpolateGuarded(c, value, v0, v1) ==
  IF v1 = v0 THEN c
  ELSE c + (2 * (value - v0) * (v1 - v0)) \div ((v1 - v0) * (v1 - v0)) - 1

\* x + (value - v0) / (v1 - v0) - 0.5 on a doubled coordinate.  The model's
\* samples and thresholds keep the quotient on the lattice.  Equal samples
\* make the divisor 0.0: the quotient is an infinity, or NaN for 0.0 / 0.0.
Interpolate(c, value, v0, v1) ==
  IF v1 = v0
  THEN IF value > v0 THEN Infinity ELSE IF value < v0 THEN -Infinity ELSE NaN
  ELSE c + (2 * (value - v0) * (v1 - v0)) \div ((v1 - v0) * (v1 - v0)) - 1

SmoothPoint(w, h, point, values, value) ==
  LET xt == point[1] \div 2
      yt == point[2] \div 2
      ix == yt * w + xt
  IN  IF ix < Len(values)
      THEN LET v1 == values[ix + 1]
           IN  << IF point[1] > 0 /\ point[1] < 2 * w /\ point[1] % 2 = 0
                  THEN Interpolate(point[1], value, values[ix], v1)
                  ELSE point[1],
                  IF point[2] > 0 /\ point[2] < 2 * h /\ point[2] % 2 = 0
                  THEN Interpolate(point[2], value, values[ix - w + 1], v1)
                  ELSE point[2] >>
      ELSE point

SmooothLinear(w, h, ring, values, value) ==
  [k \in 1..Len(ring) |-> SmoothPoint(w, h, ring[k], values, value)]

\* The opposite orientation.
IsOuterNegative(ring) == Area(ring) < 0

\* area(&ring) > 0.0: the ring starts a polygon; otherwise it is a hole.
IsOuter(ring) == Area(ring) > 0

\* The selected rings from the last completed to the first.
RECURSIVE SelectRingsReversed(_, _)
SelectRingsReversed(rings, outer) ==
  IF rings = << >> THEN << >>
  ELSE IF IsOuter(Head(rings)) = outer
       THEN SelectRingsReversed(Tail(rings), outer) \o <<Head(rings)>>
       ELSE SelectRingsReversed(Tail(rings), outer)

RECURSIVE SelectRings(_, _)
SelectRings(rings, outer) ==
  IF rings = << >> THEN << >>
  ELSE IF IsOuter(Head(rings)) = outer
       THEN <<Head(rings)>> \o SelectRings(Tail(rings), outer)
       ELSE SelectRings(Tail(rings), outer)

\* The last polygon that contains the hole, not the first.
HoleTargetLast(polygons, hole) ==
  LET hits == {k \in 1..Len(polygons) : Contains(polygons[k][1], hole) # -1}
  IN  IF hits = {} THEN 0 ELSE CHOOSE k \in hits : \A j \in hits : k >= j

\* The polygon the hole is pushed to (0: none).
HoleTarget(polygons, hole) ==
  LET hits == {k \in 1..Len(polygons) : Contains(polygons[k][1], hole) # -1}
  IN  IF hits = {} THEN 0 ELSE CHOOSE k \in hits : \A j \in hits : k <= j

AttachHole(polygons, hole) ==
  LET k == HoleTarget(polygons, hole)
  IN  IF k = 0 THEN polygons ELSE [polygons EXCEPT ![k] = Append(@, hole)]

RECURSIVE AttachHoles(_, _)
AttachHoles(polygons, holes) ==
  IF holes = << >> THEN polygons
  ELSE AttachHoles(AttachHole(polygons, Head(holes)), Tail(holes))

\* Polygons that sorts and nests the rings as the sweep returned them and
\* smooths them last.
PolygonsSmoothLast(w, h, smooth, rings, values, threshold) ==
  LET outers == SelectRings(rings, TRUE)
      nested == AttachHoles([k \in 1..Len(outers) |-> <<outers[k]>>],
                            SelectRings(rings, FALSE))
  IN  IF smooth
      THEN [k \in 1..Len(nested) |->
              [j \in 1..Len(nested[k]) |->
                 SmooothLinear(w, h, nested[k][j], values, threshold)]]
      ELSE nested

\* The MultiPolygon of the rings a sweep returned.
Polygons(w, h, smooth, rings, values, threshold) ==
  LET rs == IF smooth
            THEN [k \in 1..Len(rings) |-> SmooothLinear(w, h, rings[k], values, threshold)]
            ELSE rings
      outers == SelectRings(rs, TRUE)
  IN  AttachHoles([k \in 1..Len(outers) |-> <<outers[k]>>], SelectRings(rs, FALSE))

Feature(threshold, polygons) == [value |-> threshold, polygons |-> polygons]

\* What contour makes of the sweep's outcome r.
ContourOf(w, h, smooth, values, threshold, r) ==
  [b |-> r.b, status |-> r.status,
   feature |-> IF r.status = "Ok"
               THEN Feature(threshold, Polygons(w, h, smooth, r.result, values, threshold))
               ELSE Feature(threshold, << >>)]

\* contour(&self, values, threshold, isoring): the builder after the call
\* and Ok(feature), Err or a panic.
Contour(w, h, smooth, values, threshold, isoring) ==
  ContourOf(w, h, smooth, values, threshold, Compute(isoring, values, threshold))

(***************************************************************************)
(* u32 arithmetic of the dimension check, on 16-bit halves so that no      *)
(* intermediate value leaves TLC's integers.  A u32 is <<hi, lo>>.         *)
(***************************************************************************)
Half == 2 ^ (WordBits \div 2)

Byte == 2 ^ (WordBits \div 4)

\* n as u32 (n >= 0).
AsU32(n) == <<(n \div Half) % Half, n % Half>>

\* The carries of a * b above the low half: al * bl = lo + Half * carry.
MulLow(a, b) ==
  LET al == a % Half
      bl == b % Half
      p0 == (al % Byte) * bl
      p1 == (al \div Byte) * bl
      q == p0 + (p1 % Byte) * Byte
  IN  [lo |-> q % Half, carry |-> (q \div Half) + (p1 \div Byte)]

MulCross(a, b) ==
  LET l == MulLow(a, b)
      m1 == (a \div Half) * (b % Half)
      m2 == (a % Half) * (b \div Half)
      sum == (m1 % Half) + (m2 % Half) + l.carry
  IN  [hi |-> sum % Half,
       over |-> (m1 \div Half) + (m2 \div Half) + (sum \div Half)
                  + (a \div Half) * (b \div Half)]

\* a * b in u32 with the overflow wrapped around.
WrappingMul(a, b) == <<MulCross(a, b).hi, MulLow(a, b).lo>>

\* a * b does not fit in a u32.
MulOverflows(a, b) == MulCross(a, b).over > 0

(***************************************************************************)
(* The explored inputs: every grid of at most MaxDim columns and rows,     *)
(* with up to MaxThresholds thresholds as long as the call sweeps at most  *)
(* MaxWork samples in all; slices of a wrong length up to MaxBadLen; a     *)
(* builder whose dx * dy exceeds a u32; a grid of nested bands; and the    *)
(* grids of the tests of lib.rs.                                           *)
(***************************************************************************)
BigDim == Half

TestDim == 10

\* A 10 x 10 field of 0 with the rows 3.. replaced by `rows` from column 3.
Field(rows) ==
  [k \in 1..(TestDim * TestDim) |->
     LET x == (k - 1) % TestDim
         y == (k - 1) \div TestDim
     IN  IF y - 2 \in 1..Len(rows) /\ x - 2 \in 1..Len(rows[y - 2])
         THEN rows[y - 2][x - 2] ELSE 0]

TestCases ==
  { [name |-> "test_empty_polygons", smooth |-> TRUE, thresholds |-> <<1>>,
     values |-> Field(<< >>)],
    [name |-> "test_simple_polygon", smooth |-> TRUE, thresholds |-> <<1>>,
     values |-> Field(<< <<2, 2, 2>>, <<2, 2, 2>>, <<2, 2, 2>>, <<2, 2, 2>>, <<2, 2, 2>> >>)],
    [name |-> "test_polygon_with_hole", smooth |-> TRUE, thresholds |-> <<1>>,
     values |-> Field(<< <<2, 2, 2>>, <<2, 0, 2>>, <<2, 0, 2>>, <<2, 0, 2>>, <<2, 2, 2>> >>)],
    [name |-> "test_multipolygon", smooth |-> TRUE, thresholds |-> <<1>>,
     values |-> Field(<< <<2, 2, 0, 2>>, <<2, 2, 0, 2>>, <<2, 2, 0, 2>>, <<2, 2, 0, 2>>,
                         <<2, 2, 0, 2>> >>)],
    [name |-> "test_multipolygon_with_hole", smooth |-> TRUE, thresholds |-> <<1>>,
     values |-> [k \in 1..(TestDim * TestDim) |->
                   LET x == (k - 1) % TestDim
                       y == (k - 1) \div TestDim
                   IN  IF y \in 3..5 /\ x \in {1, 2, 3, 5, 6, 7}
                            /\ ~(y = 4 /\ x \in {2, 6})
                       THEN 2 ELSE 0]],
    [name |-> "test_simple_polygon_no_smoothing", smooth |-> FALSE, thresholds |-> <<1>>,
     values |-> Field(<< <<4, 2, 4>>, <<4, 4, 4>>, <<2, 4, 2>>, <<4, 4, 4>>, <<4, 2, 4>> >>)],
    [name |-> "test_multiple_thresholds", smooth |-> TRUE, thresholds |-> <<1, 3>>,
     values |-> Field(<< <<2, 2, 2, 2>>, <<2, 2, 2, 2>>, <<2, 4, 4, 2>>, <<2, 2, 4, 2>>,
                         <<2, 2, 2, 2>>, <<2, 2, 2, 2>> >>)] }

\* A grid of nested square bands: 1 on the border, 0 inside it, 1 again, ...
NestedDim == 2 * MaxDim + 1

NestedGrid ==
  [k \in 1..(NestedDim * NestedDim) |->
     LET x == (k - 1) % NestedDim
         y == (k - 1) \div NestedDim
         band == CHOOSE m \in {x, y, NestedDim - 1 - x, NestedDim - 1 - y} :
                   \A n \in {x, y, NestedDim - 1 - x, NestedDim - 1 - y} : m <= n
     IN  (band + 1) % 2]

\* A square band of 1 around a block of 0, and a lone 1 that touches the
\* band by a corner only.
CornerDim == MaxDim + 1

CornerGrid ==
  [k \in 1..(CornerDim * CornerDim) |->
     LET x == (k - 1) % CornerDim
         y == (k - 1) \div CornerDim
         far == CornerDim - 1
     IN  IF x = far \/ y = far THEN (IF x = far /\ y = far THEN 1 ELSE 0)
         ELSE IF x = 0 \/ y = 0 \/ x = far - 1 \/ y = far - 1 THEN 1
         ELSE 0]

\* A block of 1 with one hole of 0 in every second column: the first hole
\* as tall as the block allows, the others one sample tall.
HolesDx == 2 * MaxDim - 1

HolesDy == MaxDim + 1

HolesGrid ==
  [k \in 1..(HolesDx * HolesDy) |->
     LET x == (k - 1) % HolesDx
         y == (k - 1) \div HolesDx
     IN  IF x % 2 = 1 /\ y >= 1 /\ y <= HolesDy - 2 /\ (x = 1 \/ y = 1)
         THEN 0 ELSE 1]

\* A block of 1 whose first row has a notch of 0 in every second column.
NotchDx == 2 * MaxDim - 1

NotchDy == MaxDim - 1

NotchGrid ==
  [k \in 1..(NotchDx * NotchDy) |->
     LET x == (k - 1) % NotchDx
         y == (k - 1) \div NotchDx
     IN  IF x % 2 = 1 /\ y = 0 THEN 0 ELSE 1]

SmallDims == {d \in (1..MaxDim) \X (1..MaxDim) : d[1] * d[2] <= MaxWork}

BuilderDims ==
  SmallDims \cup {<<BigDim, BigDim>>, <<TestDim, TestDim>>, <<NestedDim, NestedDim>>,
                   <<CornerDim, CornerDim>>, <<HolesDx, HolesDy>>}

SeqsOf(S, n) == [1..n -> S]

ThresholdLists == UNION {SeqsOf(Levels, n) : n \in 0..MaxThresholds}

\* The values slices tried on a builder of w x h.
ValueInputs(w, h) ==
  IF w = TestDim /\ h = TestDim THEN {c.values : c \in TestCases}
  ELSE IF w = NestedDim /\ h = NestedDim THEN {NestedGrid}
  ELSE IF w = CornerDim /\ h = CornerDim THEN {CornerGrid}
  ELSE IF w = HolesDx /\ h = HolesDy THEN {HolesGrid}
  ELSE UNION {SeqsOf(Samples, n) : n \in 0..MaxBadLen}
         \cup (IF <<w, h>> \in SmallDims THEN SeqsOf(Samples, w * h) ELSE {})

\* The threshold slices tried with `vals` on a builder of w x h.
ThresholdInputs(w, h, sm, vals) ==
  IF w = TestDim /\ h = TestDim
  THEN {c.thresholds : c \in {t \in TestCases : t.values = vals /\ t.smooth = sm}}
  ELSE IF w = NestedDim /\ h = NestedDim THEN SeqsOf(Levels, 1)
  ELSE IF w = CornerDim /\ h = CornerDim THEN SeqsOf(Levels, 1)
  ELSE IF w = HolesDx /\ h = HolesDy THEN SeqsOf(Levels, 1)
  ELSE {ths \in ThresholdLists : Len(vals) * Len(ths) <= MaxWork}

(***************************************************************************)
(* The program: a ContourBuilder (dx, dy, smooth), and calls of contours   *)
(* or contour_rings on it.  A call of contours is the dimension check,     *)
(* then one step per threshold (the closure of the map), then the collect. *)
(***************************************************************************)
VARIABLES
  dx, dy, smooth,   \* the ContourBuilder
  profile,          \* the build: "debug" (overflow checks) or "release" (wrapping),
                    \* "unobserved" until an overflow shows which
  call,             \* the entry point called: "none", "contours", "contour_rings"
  values,           \* the call's values slice
  thresholds,       \* the call's thresholds
  pc,               \* "idle", "iter" (inside contours' map), "returned"
  it,               \* how many thresholds the iterator of the map has yielded
  isoring,          \* the IsoRingBuilder of the call
  features,         \* the features collected so far
  rings,            \* what contour_rings returned
  outcome,          \* "none", "Ok", "BadDimension", "Unexpected", "panic"
  earlier,          \* the results of the earlier calls on this builder
  sw,               \* a compute in progress, step by step: its locals and builder
  visited,          \* the cells that compute has looked up: <<x, y, code>>
  raw               \* the ring handed to smoooth_linear, as it was

vars == <<dx, dy, smooth, profile, call, values, thresholds, pc, it, isoring, features, rings,
          outcome, earlier, sw, visited, raw>>

Init ==
  /\ \E d \in BuilderDims : dx = d[1] /\ dy = d[2]
  /\ smooth \in BOOLEAN
  /\ profile = "unobserved"
  /\ call = "none"
  /\ values = << >>
  /\ thresholds = << >>
  /\ pc = "idle"
  /\ it = 0
  /\ isoring = IsoRingBuilderNew(0, 0)
  /\ features = << >>
  /\ rings = << >>
  /\ outcome = "none"
  /\ earlier = << >>
  /\ sw = SweepNew(IsoRingBuilderNew(0, 0))
  /\ visited = << >>
  /\ raw = << >>

\* values.len() as u32 != self.dx * self.dy
BadDimension(w, h, vals) == AsU32(Len(vals)) # WrappingMul(w, h)

\* The builds an overflowing multiplication can be running in.
Profiles == IF profile = "unobserved" THEN {"debug", "release"} ELSE {profile}

\* An entry that keeps the features of the call before.
ContoursEnterStale(vals, ths) ==
  /\ call' = "contours"
  /\ values' = vals
  /\ thresholds' = ths
  /\ it' = 0
  /\ features' = features
  /\ rings' = << >>
  /\ IF MulOverflows(dx, dy)
     THEN \E p \in Profiles : profile' = p
     ELSE UNCHANGED profile
  /\ IF MulOverflows(dx, dy) /\ profile' = "debug"
     THEN outcome' = "panic" /\ pc' = "returned" /\ UNCHANGED isoring
     ELSE IF BadDimension(dx, dy, vals)
          THEN outcome' = "BadDimension" /\ pc' = "returned" /\ UNCHANGED isoring
          ELSE outcome' = "none" /\ pc' = "iter" /\ isoring' = IsoRingBuilderNew(dx, dy)
  /\ UNCHANGED <<sw, visited, raw, dx, dy, smooth>>

\* The body of contours up to the map: in a debug build an overflowing
\* dx * dy panics, in a release build it wraps.
ContoursEnter(vals, ths) ==
  /\ call' = "contours"
  /\ values' = vals
  /\ thresholds' = ths
  /\ it' = 0
  /\ features' = << >>
  /\ rings' = << >>
  /\ IF MulOverflows(dx, dy)
     THEN \E p \in Profiles : profile' = p
     ELSE UNCHANGED profile
  /\ IF MulOverflows(dx, dy) /\ profile' = "debug"
     THEN outcome' = "panic" /\ pc' = "returned" /\ UNCHANGED isoring
     ELSE IF BadDimension(dx, dy, vals)
          THEN outcome' = "BadDimension" /\ pc' = "returned" /\ UNCHANGED isoring
          ELSE outcome' = "none" /\ pc' = "iter" /\ isoring' = IsoRingBuilderNew(dx, dy)
  /\ UNCHANGED <<sw, visited, raw, dx, dy, smooth>>

CallContours ==
  /\ pc = "idle"
  /\ \E vals \in ValueInputs(dx, dy) :
       \E ths \in ThresholdInputs(dx, dy, smooth, vals) : ContoursEnter(vals, ths)
  /\ UNCHANGED earlier

\* An iterator from the back.
NextThresholdBack(ths, n) == ths[Len(ths) - n]

\* thresholds.iter(): the element the iterator yields after n others.
NextThreshold(ths, n) == ths[n + 1]

\* The next threshold of the map: self.contour(values, *value, &mut isoring).
ContourStep ==
  /\ pc = "iter"
  /\ it < Len(thresholds)
  /\ it' = it + 1
  /\ \E r \in {Contour(dx, dy, smooth, values, NextThreshold(thresholds, it), isoring)} :
         /\ isoring' = r.b
         /\ IF r.status = "Ok"
            THEN features' = Append(features, r.feature) /\ UNCHANGED <<pc, outcome>>
            ELSE outcome' = r.status /\ pc' = "returned" /\ UNCHANGED features
  /\ UNCHANGED <<sw, visited, raw, dx, dy, smooth, profile, call, values, thresholds, rings, earlier>>

\* The iterator is exhausted: collect gives Ok(features).
Collect ==
  /\ pc = "iter"
  /\ it = Len(thresholds)
  /\ outcome' = "Ok"
  /\ pc' = "returned"
  /\ UNCHANGED <<sw, visited, raw, dx, dy, smooth, profile, call, values, thresholds, it, isoring, features,
                 rings, earlier>>

\* contours is called again on the same builder with the same arguments.
CallContoursAgain ==
  /\ pc = "returned"
  /\ call = "contours"
  /\ Len(earlier) + 1 < MaxCalls
  /\ earlier' = Append(earlier, [outcome |-> outcome, features |-> features])
  /\ ContoursEnter(values, thresholds)

\* contour_rings(values, threshold, dx, dy).
CallContourRings ==
  /\ pc = "idle"
  /\ \E vals \in ValueInputs(dx, dy) : \E t \in Levels :
       \E r \in {Compute(IsoRingBuilderNew(dx, dy), vals, t)} :
           /\ call' = "contour_rings"
           /\ values' = vals
           /\ thresholds' = <<t>>
           /\ isoring' = r.b
           /\ rings' = IF r.status = "Ok" THEN r.result ELSE << >>
           /\ outcome' = r.status
           /\ pc' = "returned"
  /\ UNCHANGED <<sw, visited, raw, dx, dy, smooth, profile, it, features, earlier>>

Next ==
  \/ CallContours
  \/ ContourStep
  \/ Collect
  \/ CallContoursAgain
  \/ CallContourRings

Spec == Init /\ [][Next]_vars

(***************************************************************************)
(* smoooth_linear on its own: a grid of at most MaxSmooth samples, a       *)
(* threshold, and a ring that is either a ring of the sweep or one point   *)
(* of the lattice of cell-edge midpoints (one coordinate whole, the other  *)
(* a half).                                                                *)
(***************************************************************************)
SmoothDims == {d \in SmallDims : d[1] * d[2] <= MaxSmooth}

Midpoints(w, h) ==
  {p \in (0..(2 * w)) \X (0..(2 * h)) : (p[1] + p[2]) % 2 = 1}

SmoothRings(w, h, vals, t) ==
  {<<p>> : p \in Midpoints(w, h)}
    \cup LET found == Compute(IsoRingBuilderNew(w, h), vals, t).result
         IN  {found[k] : k \in 1..Len(found)}

SmoothInit ==
  /\ \E d \in SmoothDims : dx = d[1] /\ dy = d[2]
  /\ smooth = TRUE
  /\ profile = "unobserved"
  /\ call = "smoooth_linear"
  /\ values \in SeqsOf(Samples, dx * dy)
  /\ thresholds \in SeqsOf(Levels, 1)
  /\ pc = "idle"
  /\ it = 0
  /\ isoring = IsoRingBuilderNew(0, 0)
  /\ features = << >>
  /\ rings = << >>
  /\ outcome = "none"
  /\ earlier = << >>
  /\ sw = SweepNew(IsoRingBuilderNew(0, 0))
  /\ visited = << >>
  /\ raw \in SmoothRings(dx, dy, values, thresholds[1])

\* self.smoooth_linear(&mut ring, values, threshold)
Smoooth ==
  /\ pc = "idle"
  /\ call = "smoooth_linear"
  /\ rings' = <<SmooothLinear(dx, dy, raw, values, thresholds[1])>>
  /\ pc' = "returned"
  /\ UNCHANGED <<dx, dy, smooth, profile, call, values, thresholds, it, isoring, features,
                 outcome, earlier, sw, visited, raw>>

SmoothNext == Smoooth

SmoothSpec == SmoothInit /\ [][SmoothNext]_vars

(***************************************************************************)
(* compute on its own, step by step: a grid of dx * dy samples, a          *)
(* threshold and a builder that is new or, for the smallest grids, has     *)
(* been through a sweep.  A step looks the code of the next cell up,       *)
(* stitches one segment of the cell, or returns.                           *)
(***************************************************************************)
SweepDims ==
  SmallDims \cup {<<CornerDim, CornerDim>>, <<HolesDx, HolesDy>>, <<NotchDx, NotchDy>>}

SweepBuilders(w, h, vals) ==
  {IsoRingBuilderNew(w, h)}
    \cup (IF <<w, h>> \in SmoothDims
          THEN {Compute(IsoRingBuilderNew(w, h), vals, t).b : t \in Levels}
          ELSE {})

SweepInit ==
  /\ \E d \in SweepDims : dx = d[1] /\ dy = d[2]
  /\ smooth = FALSE
  /\ profile = "unobserved"
  /\ call = "compute"
  /\ values \in (IF <<dx, dy>> \in SmallDims THEN SeqsOf(Samples, dx * dy)
                 ELSE IF <<dx, dy>> = <<NotchDx, NotchDy>> THEN {NotchGrid}
                 ELSE ValueInputs(dx, dy))
  /\ thresholds \in SeqsOf(Levels, 1)
  /\ pc = "idle"
  /\ it = 0
  /\ isoring = IsoRingBuilderNew(0, 0)
  /\ features = << >>
  /\ rings = << >>
  /\ outcome = "none"
  /\ earlier = << >>
  /\ sw \in {SweepNew(b) : b \in SweepBuilders(dx, dy, values)}
  /\ visited = << >>
  /\ raw = << >>

\* The next cell of the loops: its samples are read and its code looked up.
SweepLookup ==
  /\ call = "compute" /\ pc = "idle"
  /\ SweepRunning(sw) /\ sw.pending = << >> /\ sw.pc # "finish"
  /\ sw' = SweepStep(sw, values, thresholds[1])
  /\ visited' = IF sw'.status = "Ok"
                THEN Append(visited, <<sw'.cx, sw'.cy, sw'.code>>)
                ELSE visited
  /\ UNCHANGED <<dx, dy, smooth, profile, call, values, thresholds, pc, it, isoring,
                 features, rings, outcome, earlier, raw>>

\* self.stitch(&ring, x, y, &mut result)? for the next segment of the cell.
SweepStitchSegment ==
  /\ call = "compute" /\ pc = "idle"
  /\ SweepRunning(sw) /\ sw.pending # << >>
  /\ sw' = SweepStep(sw, values, thresholds[1])
  /\ UNCHANGED <<dx, dy, smooth, profile, call, values, thresholds, pc, it, isoring,
                 features, rings, outcome, earlier, visited, raw>>

\* self.is_empty = false; Ok(result)
SweepReturn ==
  /\ call = "compute" /\ pc = "idle"
  /\ SweepRunning(sw) /\ sw.pending = << >> /\ sw.pc = "finish"
  /\ sw' = SweepStep(sw, values, thresholds[1])
  /\ isoring' = sw'.b
  /\ rings' = sw'.result
  /\ outcome' = "Ok"
  /\ pc' = "returned"
  /\ UNCHANGED <<dx, dy, smooth, profile, call, values, thresholds, it, features, earlier,
                 visited, raw>>

SweepNext == SweepLookup \/ SweepStitchSegment \/ SweepReturn

SweepSpec == SweepInit /\ [][SweepNext]_vars

(***************************************************************************)
(* stitch on a store whose maps hold a key of a fragment the slab does not *)
(* have: a sweep of compute over a small grid, during which one fragment   *)
(* may vanish from the slab while its keys stay in the maps.               *)
(***************************************************************************)
StitchDims == {d \in SmallDims : d[1] * d[2] <= MaxStitch}

\* The entry of `key` in the map names a slot of the slab that is vacant.
Dangling(b, map, key) == MapHas(map, key) /\ ~SlabContains(b.f, map[key])

Resolved(b) ==
  /\ \A key \in DOMAIN b.fragment_by_start : ~Dangling(b, b.fragment_by_start, key)
  /\ \A key \in DOMAIN b.fragment_by_end : ~Dangling(b, b.fragment_by_end, key)

StitchInit ==
  /\ \E d \in StitchDims : dx = d[1] /\ dy = d[2]
  /\ smooth = FALSE
  /\ profile = "unobserved"
  /\ call = "compute"
  /\ values \in SeqsOf(Samples, dx * dy)
  /\ thresholds \in SeqsOf(Levels, 1)
  /\ pc = "idle"
  /\ it = 0
  /\ isoring = IsoRingBuilderNew(0, 0)
  /\ features = << >>
  /\ rings = << >>
  /\ outcome = "none"
  /\ earlier = << >>
  /\ sw = SweepNew(IsoRingBuilderNew(dx, dy))
  /\ visited = << >>
  /\ raw = << >>

\* A fragment vanishes from the slab; the maps keep its keys.
Vanish ==
  /\ call = "compute" /\ pc = "idle"
  /\ SweepRunning(sw) /\ Resolved(sw.b)
  /\ \E k \in SlabLive(sw.b.f) : sw' = [sw EXCEPT !.b.f = SlabRemove(@, k)]
  /\ UNCHANGED <<dx, dy, smooth, profile, call, values, thresholds, pc, it, isoring,
                 features, rings, outcome, earlier, visited, raw>>

StitchNext == SweepLookup \/ SweepStitchSegment \/ SweepReturn \/ Vanish

StitchSpec == StitchInit /\ [][StitchNext]_vars

(***************************************************************************)
(* Properties.                                                             *)
(***************************************************************************)
\* The slice holds exactly dx * dy samples (the product taken exactly).
LengthMatches == ~MulOverflows(dx, dy) /\ Len(values) = dx * dy

ValidGrid == dx >= 1 /\ dy >= 1 /\ LengthMatches

SeqRange(q) == {q[i] : i \in 1..Len(q)}

\* C1: contours answers every slice whose length differs from dx * dy with
\* the BadDimension error: it has returned, with that error, without a
\* sweep having run and without a panic.
C1_BadDimensionAlways ==
  (call = "contours" /\ ~LengthMatches)
    => (pc = "returned" /\ outcome = "BadDimension" /\ it = 0)

\* C2: contour_rings answers every slice whose length differs from dx * dy
\* with the BadDimension error, never with a panic or with rings.
C2_RingsBadDimensionAlways ==
  (call = "contour_rings" /\ ~LengthMatches) => outcome = "BadDimension"

\* C3: every ring the sweep returns is closed: its first and last point
\* have the same endpoint key and the same coordinates.
C3_RingsClosed ==
  (call = "contour_rings" /\ outcome = "Ok")
    => \A i \in 1..Len(rings) :
         /\ Len(rings[i]) >= 2
         /\ rings[i][1] = Last(rings[i])
         /\ Index(isoring, rings[i][1]) = Index(isoring, Last(rings[i]))

C3_Witness ==
  call = "contour_rings" /\ outcome = "Ok" /\ ValidGrid /\ Len(rings) >= 2

\* What contours gives for one threshold on a builder of its own.
FreshFeature(t) == Contour(dx, dy, smooth, values, t, IsoRingBuilderNew(dx, dy)).feature

\* C4: contours returns one feature per threshold in the order of the
\* thresholds: feature i carries thresholds[i] and the polygons of
\* thresholds[i] (while the map runs, the features are that list's prefix).
C4_FeaturesInThresholdOrder ==
  (call = "contours" /\ pc # "idle" /\ outcome \in {"none", "Ok"})
    => /\ Len(features) = it
       /\ outcome = "Ok" => it = Len(thresholds)
       /\ \A i \in 1..Len(features) :
            /\ i <= Len(thresholds)
            /\ features[i].value = thresholds[i]
            /\ features[i] = FreshFeature(thresholds[i])

C4_Witness ==
  /\ call = "contours" /\ outcome = "Ok" /\ Len(thresholds) = 2
  /\ thresholds[1] > thresholds[2]
  /\ features[1].polygons # features[2].polygons
  /\ features[1].polygons # << >>

\* C5: a second call of contours with the same values and thresholds
\* returns what the first call returned.
C5_Idempotent ==
  (call = "contours" /\ pc = "returned")
    => \A i \in 1..Len(earlier) :
         earlier[i] = [outcome |-> outcome, features |-> features]

C5_Witness ==
  /\ call = "contours" /\ pc = "returned" /\ outcome = "Ok" /\ Len(earlier) = 1
  /\ Len(features) = 2
  /\ features[1].polygons # << >>

\* The builder as compute leaves it after its conditional clear.
AfterConditionalClear(b) == IF ~b.is_empty THEN Clear(b) ELSE b

\* Nothing in the slab, not even a vacant entry, and nothing in the maps.
StoreEmpty(b) ==
  /\ b.f = SlabNew
  /\ b.fragment_by_start = MapNew
  /\ b.fragment_by_end = MapNew

\* C6: whatever sweeps the builder of a call has run, the next sweep starts
\* from an empty fragment store and returns, for any threshold, the rings a
\* fresh builder returns.
C6_NoFragmentSurvives ==
  (call = "contours" /\ pc = "iter")
    => /\ StoreEmpty(AfterConditionalClear(isoring))
       /\ \A t \in Levels \cup SeqRange(thresholds) :
            LET reused == Compute(isoring, values, t)
                fresh == Compute(IsoRingBuilderNew(dx, dy), values, t)
            IN  reused.status = fresh.status /\ reused.result = fresh.result

C6_Witness ==
  /\ call = "contours" /\ pc = "iter" /\ it >= 1 /\ it < Len(thresholds)
  /\ ~isoring.is_empty
  /\ Len(isoring.f.entries) >= 2
  /\ Compute(isoring, values, thresholds[it + 1]).result # << >>

\* The samples equal to the threshold raised by `by`.
Raised(vals, t, by) == [k \in 1..Len(vals) |-> IF vals[k] = t THEN vals[k] + by ELSE vals[k]]

\* C7: a sample equal to the threshold counts as inside: the rings are
\* those of the grid in which every such sample is replaced by a larger
\* value.
C7_ThresholdInclusive ==
  (call = "contour_rings" /\ outcome = "Ok" /\ ValidGrid)
    => \A by \in 1..2 :
         rings = Compute(IsoRingBuilderNew(dx, dy), Raised(values, thresholds[1], by),
                         thresholds[1]).result

\* A sample equal to the threshold in the first row, in an interior row and
\* in the last row, next to a sample below it.
C7_Witness ==
  /\ call = "contour_rings" /\ outcome = "Ok" /\ ValidGrid /\ dy >= 3 /\ dx >= 2
  /\ \A y \in {0, 1, dy - 1} :
       values[y * dx + 1] = thresholds[1] /\ values[y * dx + 2] < thresholds[1]
  /\ rings # << >>

(***************************************************************************)
(* The regions of a grid, for the properties of the rings: a sample is the *)
(* pair <<x, y>> of its column and row.                                    *)
(***************************************************************************)
GridSamples == (0..(dx - 1)) \X (0..(dy - 1))

SampleAt(c) == values[c[2] * dx + c[1] + 1]

InsideSamples(t) == {c \in GridSamples : SampleAt(c) >= t}

OutsideSamples(t) == {c \in GridSamples : SampleAt(c) < t}

\* Neighbours: by an edge, or (diagonal) by an edge or a corner.
Adjacent(a, b, diagonal) ==
  IF diagonal THEN a # b /\ Abs(a[1] - b[1]) <= 1 /\ Abs(a[2] - b[2]) <= 1
  ELSE Abs(a[1] - b[1]) + Abs(a[2] - b[2]) = 1

\* The samples of S connected to `seen` (which grows until it is closed).
RECURSIVE Region(_, _, _)
Region(S, seen, diagonal) ==
  LET more == {c \in S \ seen : \E d \in seen : Adjacent(c, d, diagonal)}
  IN  IF more = {} THEN seen ELSE Region(S, seen \cup more, diagonal)

\* The connected regions of S.
RECURSIVE Regions(_, _)
Regions(S, diagonal) ==
  IF S = {} THEN {}
  ELSE LET r == Region(S, {CHOOSE c \in S : TRUE}, diagonal)
       IN  {r} \cup Regions(S \ r, diagonal)

OnEdge(c) == c[1] = 0 \/ c[2] = 0 \/ c[1] = dx - 1 \/ c[2] = dy - 1

\* The 8-connected regions below the threshold that do not reach the
\* outside of the grid.
EnclosedRegions(t) ==
  {r \in Regions(OutsideSamples(t), TRUE) : \A c \in r : ~OnEdge(c)}

\* C8: the sweep returns one ring per 4-connected region of samples at or
\* above the threshold and one per enclosed 8-connected region of samples
\* below it.
C8_OneRingPerRegion ==
  (call = "contour_rings" /\ ValidGrid)
    => /\ outcome = "Ok"
       /\ Len(rings) = Cardinality(Regions(InsideSamples(thresholds[1]), FALSE))
                         + Cardinality(EnclosedRegions(thresholds[1]))

\* Regions that touch only diagonally, and an enclosed region.
C8_Witness ==
  /\ call = "contour_rings" /\ outcome = "Ok" /\ ValidGrid
  /\ Cardinality(Regions(InsideSamples(thresholds[1]), FALSE)) = 2
  /\ Cardinality(Regions(InsideSamples(thresholds[1]), TRUE)) = 1
  /\ Cardinality(EnclosedRegions(thresholds[1])) >= 1

(***************************************************************************)
(* What a ring bounds.  The sample <<x, y>> sits at the doubled point      *)
(* <<2x + 1, 2y + 1>>; a ring's edges join its consecutive points.         *)
(***************************************************************************)
Centre(c) == <<2 * c[1] + 1, 2 * c[2] + 1>>

\* The ray from the sample's centre crosses an odd number of edges.
Encloses(ring, c) ==
  Cardinality({i \in 1..(Len(ring) - 1) :
                 Crosses(ring[i], ring[i + 1], Centre(c))}) % 2 = 1

Enclosed(ring) == {c \in GridSamples : Encloses(ring, c)}

\* The enclosed samples next to a sample that is not enclosed, or to the
\* outside of the grid.
Rim(E) ==
  {c \in E : OnEdge(c) \/ \E d \in GridSamples \ E : Adjacent(c, d, FALSE)}

\* The ring goes around the region and runs along its samples.
Bounds(ring, region) ==
  /\ region \subseteq Enclosed(ring)
  /\ Rim(Enclosed(ring)) \subseteq region

FreshRings(t) == Compute(IsoRingBuilderNew(dx, dy), values, t).result

IsFirstRing(polygons, ring) == \E k \in 1..Len(polygons) : polygons[k][1] = ring

IsHoleRing(polygons, ring) ==
  \E k \in 1..Len(polygons) : \E j \in 2..Len(polygons[k]) : polygons[k][j] = ring

\* C9: without smoothing, the ring around a region of samples at or above
\* the threshold has positive area and is the first ring of a polygon; the
\* ring around an enclosed region of samples below the threshold has
\* non-positive area and is a hole, never a first ring; one region with one
\* enclosed region gives one polygon of two rings.
C9_OrientationClassifies ==
  (call = "contours" /\ pc = "returned" /\ outcome = "Ok" /\ ~smooth /\ ValidGrid)
    => \A i \in 1..Len(features) :
         LET t == thresholds[i]
             polygons == features[i].polygons
             found == FreshRings(t)
             inside == Regions(InsideSamples(t), FALSE)
             holes == EnclosedRegions(t)
         IN  /\ \A R \in inside :
                  /\ \E k \in 1..Len(found) : Bounds(found[k], R)
                  /\ \A k \in 1..Len(found) :
                       Bounds(found[k], R)
                         => Area(found[k]) > 0 /\ IsFirstRing(polygons, found[k])
             /\ \A Q \in holes :
                  /\ \E k \in 1..Len(found) : Bounds(found[k], Q)
                  /\ \A k \in 1..Len(found) :
                       Bounds(found[k], Q)
                         => /\ Area(found[k]) <= 0
                            /\ ~IsFirstRing(polygons, found[k])
                            /\ IsHoleRing(polygons, found[k])
             /\ (Cardinality(inside) = 1 /\ Cardinality(holes) = 1)
                  => Len(polygons) = 1 /\ Len(polygons[1]) = 2

\* A block with one enclosed lower region.
C9_Witness ==
  /\ call = "contours" /\ pc = "returned" /\ outcome = "Ok" /\ ~smooth /\ ValidGrid
  /\ Len(features) >= 1
  /\ Cardinality(Regions(InsideSamples(thresholds[1]), FALSE)) = 1
  /\ Cardinality(EnclosedRegions(thresholds[1])) = 1
  /\ Len(features[1].polygons) = 1
  /\ Len(features[1].polygons[1]) = 2

\* The rings contour sorts, as it sorts them.
SortedRings(t, outer) ==
  LET found == FreshRings(t)
  IN  SelectRings(IF smooth
                  THEN [k \in 1..Len(found) |->
                          SmooothLinear(dx, dy, found[k], values, t)]
                  ELSE found, outer)

\* Where the ring is a hole: the pairs <<polygon, position>>.
HoleSlots(polygons, ring) ==
  UNION {{<<k, j>> : j \in {n \in 2..Len(polygons[k]) : polygons[k][n] = ring}} :
           k \in 1..Len(polygons)}

\* The polygons whose first ring contains the hole.
Containers(outers, hole) ==
  {k \in 1..Len(outers) : Contains(outers[k], hole) # -1}

\* C10: a hole is attached once, to the first polygon whose first ring
\* contains it, and to no other; a hole that no first ring contains is
\* nowhere in the feature; the polygons hold no other ring.
C10_HoleInFirstContainer ==
  (call = "contours" /\ pc = "returned" /\ outcome = "Ok" /\ ValidGrid)
    => \A i \in 1..Len(features) :
         LET polygons == features[i].polygons
             outers == SortedRings(thresholds[i], TRUE)
             holes == SortedRings(thresholds[i], FALSE)
         IN  /\ Len(polygons) = Len(outers)
             /\ \A k \in 1..Len(outers) : polygons[k][1] = outers[k]
             /\ \A h \in 1..Len(holes) :
                  LET at == HoleSlots(polygons, holes[h])
                      hit == Containers(outers, holes[h])
                  IN  IF hit = {} THEN at = {}
                      ELSE /\ Cardinality(at) = 1
                           /\ \A s \in at : \A k \in hit : s[1] <= k
                           /\ \A s \in at : s[1] \in hit
             /\ \A k \in 1..Len(polygons) : \A j \in 2..Len(polygons[k]) :
                  \E h \in 1..Len(holes) : polygons[k][j] = holes[h]

\* A hole that the first rings of two polygons contain, attached to the
\* first of the two.
C10_Witness ==
  /\ call = "contours" /\ pc = "returned" /\ outcome = "Ok" /\ ValidGrid
  /\ Len(features) >= 1
  /\ \E h \in 1..Len(SortedRings(thresholds[1], FALSE)) :
       LET hole == SortedRings(thresholds[1], FALSE)[h]
           hit == Containers(SortedRings(thresholds[1], TRUE), hole)
       IN  /\ Cardinality(hit) = 2
           /\ \E s \in HoleSlots(features[1].polygons, hole) :
                \A k \in hit : s[1] <= k

(***************************************************************************)
(* The order of the rings of a feature.                                    *)
(***************************************************************************)
\* The rings of the sweep in the order in which stitch completed them, as
\* contour holds them (smoothed when smooth is set).
CompletedRings(t) ==
  LET found == FreshRings(t)
  IN  IF smooth
      THEN [k \in 1..Len(found) |-> SmooothLinear(dx, dy, found[k], values, t)]
      ELSE found

\* When the ring was completed: its place among the completed rings.
CompletedAt(t, ring) ==
  CHOOSE k \in 1..Len(CompletedRings(t)) : CompletedRings(t)[k] = ring

\* C11: the polygons of a feature are in the order in which their first
\* rings were completed by the sweep, and the holes of a polygon are in the
\* order in which they were completed.
C11_CompletionOrder ==
  (call = "contours" /\ pc = "returned" /\ outcome = "Ok" /\ ValidGrid)
    => \A i \in 1..Len(features) :
         LET t == thresholds[i]
             polygons == features[i].polygons
         IN  /\ \A k \in 1..Len(polygons) : \A j \in 1..Len(polygons[k]) :
                  \E n \in 1..Len(CompletedRings(t)) :
                    CompletedRings(t)[n] = polygons[k][j]
             /\ \A k, m \in 1..Len(polygons) :
                  k < m => CompletedAt(t, polygons[k][1]) < CompletedAt(t, polygons[m][1])
             /\ \A k \in 1..Len(polygons) : \A j, m \in 2..Len(polygons[k]) :
                  j < m => CompletedAt(t, polygons[k][j]) < CompletedAt(t, polygons[k][m])

\* The least x of the ring's points.
LeftOf(ring) ==
  CHOOSE v \in {ring[n][1] : n \in 1..Len(ring)} :
    \A n \in 1..Len(ring) : v <= ring[n][1]

\* A polygon with two holes, the hole completed first lying to the right
\* of the other.
C11_Witness ==
  /\ call = "contours" /\ pc = "returned" /\ outcome = "Ok" /\ ValidGrid
  /\ Len(features) >= 1
  /\ \E k \in 1..Len(features[1].polygons) :
       /\ Len(features[1].polygons[k]) >= 3
       /\ LeftOf(features[1].polygons[k][2]) > LeftOf(features[1].polygons[k][3])

(***************************************************************************)
(* Where contour smooths.                                                  *)
(***************************************************************************)
\* The polygons had the rings been sorted and nested as the sweep returned
\* them, and smoothed afterwards.
SortedThenSmoothed(t) ==
  LET sorted == Polygons(dx, dy, FALSE, FreshRings(t), values, t)
  IN  [k \in 1..Len(sorted) |->
         [j \in 1..Len(sorted[k]) |->
            IF smooth THEN SmooothLinear(dx, dy, sorted[k][j], values, t)
            ELSE sorted[k][j]]]

\* C12, as stated: the rings are sorted into outer rings and holes and
\* nested as the sweep returned them, and smoothed after that.
C12_SmoothedAfterNesting ==
  (call = "contours" /\ pc = "returned" /\ outcome = "Ok" /\ ValidGrid)
    => \A i \in 1..Len(features) :
         features[i].polygons = SortedThenSmoothed(thresholds[i])

\* C12, amended: the rings are smoothed first; a ring starts a polygon
\* exactly when its area is positive as it stands in the feature
\* (smoothed), and a hole is in the first polygon whose first ring, as it
\* stands, contains it.
C12_SortedAsSmoothed ==
  (call = "contours" /\ pc = "returned" /\ outcome = "Ok" /\ ValidGrid)
    => \A i \in 1..Len(features) :
         LET polygons == features[i].polygons
             done == CompletedRings(thresholds[i])
         IN  /\ \A k \in 1..Len(polygons) :
                  /\ Area(polygons[k][1]) > 0
                  /\ \A j \in 2..Len(polygons[k]) :
                       /\ Area(polygons[k][j]) <= 0
                       /\ Contains(polygons[k][1], polygons[k][j]) # -1
                       /\ \A m \in 1..(k - 1) :
                            Contains(polygons[m][1], polygons[k][j]) = -1
             /\ \A n \in 1..Len(done) :
                  Area(done[n]) > 0 <=> IsFirstRing(polygons, done[n])

\* With smoothing, a ring of positive area that smoothing folds onto one
\* point: it starts no polygon.
C12_Witness ==
  /\ call = "contours" /\ pc = "returned" /\ outcome = "Ok" /\ ValidGrid /\ smooth
  /\ Len(features) >= 1
  /\ \E n \in 1..Len(FreshRings(thresholds[1])) :
       /\ Area(FreshRings(thresholds[1])[n]) > 0
       /\ Area(CompletedRings(thresholds[1])[n]) = 0
       /\ ~IsFirstRing(features[1].polygons, CompletedRings(thresholds[1])[n])

(***************************************************************************)
(* Smoothing, vertex by vertex.                                            *)
(***************************************************************************)
OnBoundary(p) == p[1] = 0 \/ p[1] = 2 * dx \/ p[2] = 0 \/ p[2] = 2 * dy

\* The axis (1: x, 2: y) on which the vertex has a whole coordinate.
WholeAxis(p) == IF p[1] % 2 = 0 THEN 1 ELSE 2

\* The two samples the vertex lies between, in the order <<v0, v1>>.
Brackets(p) ==
  IF WholeAxis(p) = 1
  THEN <<SampleAt(<<p[1] \div 2 - 1, p[2] \div 2>>), SampleAt(<<p[1] \div 2, p[2] \div 2>>)>>
  ELSE <<SampleAt(<<p[1] \div 2, p[2] \div 2 - 1>>), SampleAt(<<p[1] \div 2, p[2] \div 2>>)>>

Smoothed == call = "smoooth_linear" /\ pc = "returned"

OnCellEdge(p) ==
  \/ /\ p[1] % 2 = 0 /\ p[2] % 2 = 1
     /\ 0 <= p[1] /\ p[1] <= 2 * dx
     /\ 1 <= p[2] /\ p[2] <= 2 * dy - 1
  \/ /\ p[2] % 2 = 0 /\ p[1] % 2 = 1
     /\ 0 <= p[2] /\ p[2] <= 2 * dy
     /\ 1 <= p[1] /\ p[1] <= 2 * dx - 1

\* C14: without smoothing every vertex of every ring of a feature is the
\* midpoint of a cell edge inside the grid.
C14_VerticesOnCellEdges ==
  (call = "contours" /\ pc = "returned" /\ outcome = "Ok" /\ ValidGrid /\ ~smooth)
    => \A i \in 1..Len(features) :
         \A k \in 1..Len(features[i].polygons) :
           \A j \in 1..Len(features[i].polygons[k]) :
             \A n \in 1..Len(features[i].polygons[k][j]) :
               OnCellEdge(features[i].polygons[k][j][n])

\* A ring that reaches all four sides of a grid of several samples, and
\* has a hole.
C14_Witness ==
  /\ call = "contours" /\ pc = "returned" /\ outcome = "Ok" /\ ValidGrid /\ ~smooth
  /\ Len(features) >= 1
  /\ \E k \in 1..Len(features[1].polygons) :
       LET ring == features[1].polygons[k][1]
       IN  /\ Len(features[1].polygons[k]) >= 2
           /\ \E n \in 1..Len(ring) : ring[n][1] = 0
           /\ \E n \in 1..Len(ring) : ring[n][1] = 2 * dx
           /\ \E n \in 1..Len(ring) : ring[n][2] = 0
           /\ \E n \in 1..Len(ring) : ring[n][2] = 2 * dy

(***************************************************************************)
(* The case table.  The corners of a cell, by the bit of the code that     *)
(* holds them: bit 0 is the sample at (x, y + 1), bit 1 at (x + 1, y + 1), *)
(* bit 2 at (x + 1, y), bit 3 at (x, y); Corner[b + 1] is where the sample *)
(* of bit b lies in the unit cell.                                         *)
(***************************************************************************)
Corner == << <<1, 3>>, <<3, 3>>, <<3, 1>>, <<1, 1>> >>

CodeBit(code, b) == (code \div (2 ^ b)) % 2

\* The edges of the cell: the pairs of bits whose corners are neighbours.
CellEdges == {<<0, 1>>, <<1, 2>>, <<2, 3>>, <<3, 0>>}

EdgeMidpoint(e) ==
  <<(Corner[e[1] + 1][1] + Corner[e[2] + 1][1]) \div 2,
    (Corner[e[1] + 1][2] + Corner[e[2] + 1][2]) \div 2>>

\* The midpoints of the edges whose two corners the code sorts differently.
CrossedMidpoints(code) ==
  {EdgeMidpoint(e) : e \in {d \in CellEdges : CodeBit(code, d[1]) # CodeBit(code, d[2])}}

\* The endpoints of the segments, one after the other.
RECURSIVE Endpoints(_)
Endpoints(segments) ==
  IF segments = << >> THEN << >>
  ELSE <<Head(segments)[1], Head(segments)[2]>> \o Endpoints(Tail(segments))

\* C15: the lookup of code 0 or 15 gives no segment, of 5 or 10 two, of
\* any other code one; the endpoints of the segments of a code are the
\* midpoints of the edges its corners disagree on, each one once.
C15_CaseTableExact ==
  \A code \in 0..15 :
    LET segments == Lookup(sw, code).pending
        ends == Endpoints(segments)
    IN  /\ Len(segments) = IF code \in {0, 15} THEN 0
                           ELSE IF code \in {5, 10} THEN 2 ELSE 1
        /\ {ends[n] : n \in 1..Len(ends)} = CrossedMidpoints(code)
        /\ Cardinality(CrossedMidpoints(code)) = Len(ends)

\* A sweep that has looked up both saddles, a code of one segment and a
\* code of none.
C15_Witness ==
  /\ call = "compute"
  /\ sw.code = 5 /\ Len(sw.pending) = 2
  /\ \E n \in 1..Len(visited) : visited[n][3] = 10
  /\ \E n \in 1..Len(visited) : visited[n][3] = 0
  /\ \E n \in 1..Len(visited) : visited[n][3] \notin {0, 5, 10, 15}

(***************************************************************************)
(* The hand of the segments.                                               *)
(***************************************************************************)
\* (b - a) x (c - a): negative when c lies on one side of the direction
\* from a to b, positive on the other.
Cross(a, b, c) == (b[1] - a[1]) * (c[2] - a[2]) - (b[2] - a[2]) * (c[1] - a[1])

EdgeAt(p) == CHOOSE e \in CellEdges : EdgeMidpoint(e) = p

\* The corner at or above the threshold of the edge the endpoint p of a
\* segment of `code` lies on: the corner the segment cuts off there.
CutOffCorner(code, p) ==
  IF CodeBit(code, EdgeAt(p)[1]) = 1 THEN Corner[EdgeAt(p)[1] + 1]
  ELSE Corner[EdgeAt(p)[2] + 1]

StartsAt(segments, p) == \E k \in 1..Len(segments) : segments[k][1] = p

EndsAt(segments, p) == \E k \in 1..Len(segments) : segments[k][2] = p

\* Every one of the segments of `code` has the corners it cuts off on the
\* side of its direction where Cross is negative.
OneHand(code, segments) ==
  \A k \in 1..Len(segments) :
    /\ Cross(segments[k][1], segments[k][2], CutOffCorner(code, segments[k][1])) < 0
    /\ Cross(segments[k][1], segments[k][2], CutOffCorner(code, segments[k][2])) < 0

\* The point is p for the segments of one cell and q for those of the
\* next: one cell's segment ends there and the other's starts there.
EndMeetsStart(first, p, second, q) ==
  \/ /\ EndsAt(first, p) /\ StartsAt(second, q)
     /\ ~StartsAt(first, p) /\ ~EndsAt(second, q)
  \/ /\ StartsAt(first, p) /\ EndsAt(second, q)
     /\ ~EndsAt(first, p) /\ ~StartsAt(second, q)

\* C16: the segments of the cell just looked up have the corners they cut
\* off on the same side of their direction, both segments of a saddle
\* included; and where they meet the segments of the cell to the left or
\* of the cell above (the midpoint of the shared edge, when the two shared
\* samples are sorted differently), one segment ends and the other starts.
C16_SegmentsOneHand ==
  (call = "compute" /\ visited # << >>)
    => LET cell == Last(visited)
           mine == Lookup(sw, cell[3]).pending
       IN  /\ OneHand(cell[3], mine)
           /\ \A n \in 1..(Len(visited) - 1) :
                LET other == visited[n]
                    theirs == Lookup(sw, other[3]).pending
                IN  /\ (other[1] = cell[1] - 1 /\ other[2] = cell[2]
                          /\ CodeBit(cell[3], 0) # CodeBit(cell[3], 3))
                      => EndMeetsStart(theirs, <<3, 2>>, mine, <<1, 2>>)
                    /\ (other[1] = cell[1] /\ other[2] = cell[2] - 1
                          /\ CodeBit(cell[3], 3) # CodeBit(cell[3], 2))
                      => EndMeetsStart(theirs, <<2, 3>>, mine, <<2, 1>>)

\* The cell just looked up is a saddle whose segments meet those of the
\* cell to its left and of the cell above it.
C16_Witness ==
  /\ call = "compute" /\ visited # << >>
  /\ Last(visited)[3] \in {5, 10}
  /\ \E n \in 1..Len(visited) :
       /\ visited[n][1] = Last(visited)[1] - 1 /\ visited[n][2] = Last(visited)[2]
       /\ visited[n][3] \notin {0, 15}
  /\ \E n \in 1..Len(visited) :
       /\ visited[n][1] = Last(visited)[1] /\ visited[n][2] = Last(visited)[2] - 1
       /\ visited[n][3] \notin {0, 15}

(***************************************************************************)
(* The cells of the sweep and their codes.                                 *)
(***************************************************************************)
\* The sample (i, j) is inside the grid and at or above the threshold.
In(i, j) ==
  /\ 0 <= i /\ i < dx /\ 0 <= j /\ j < dy
  /\ values[j * dx + i + 1] >= thresholds[1]

ReferenceCode(x, y) ==
  (IF In(x, y + 1) THEN 1 ELSE 0) + (IF In(x + 1, y + 1) THEN 2 ELSE 0)
    + (IF In(x + 1, y) THEN 4 ELSE 0) + (IF In(x, y) THEN 8 ELSE 0)

\* The n-th cell of the rows -1..dy-1 of the columns -1..dx-1, row by row.
RowMajor(n) == <<((n - 1) % (dx + 1)) - 1, ((n - 1) \div (dx + 1)) - 1>>

\* C17: the cells the sweep has looked up are the first cells, in row-major
\* order, of the columns -1..dx-1 and rows -1..dy-1, each one once and
\* each with its reference code; a sweep that has returned has looked all
\* of them up.
C17_SweepVisitsEveryCell ==
  call = "compute"
    => /\ Len(visited) <= (dx + 1) * (dy + 1)
       /\ \A n \in 1..Len(visited) :
            visited[n] = <<RowMajor(n)[1], RowMajor(n)[2],
                           ReferenceCode(RowMajor(n)[1], RowMajor(n)[2])>>
       /\ pc = "returned" => Len(visited) = (dx + 1) * (dy + 1)

\* A sweep over a grid with rows between the first and the last has
\* returned; a cell inside a row had all four of its bits rolled in, some
\* set and some not.
C17_Witness ==
  /\ call = "compute" /\ pc = "returned"
  /\ dx >= 3 /\ dy >= 3
  /\ \E n \in 1..Len(visited) :
       /\ visited[n][1] >= 1 /\ visited[n][1] < dx - 1
       /\ visited[n][2] >= 1 /\ visited[n][2] < dy - 1
       /\ visited[n][3] \in {6, 9}

(***************************************************************************)
(* The effect of one stitch on the fragment store.                         *)
(***************************************************************************)
\* The segment the next stitch takes, and the one the last stitch took, as
\* the points of the grid.
NextSegment ==
  LET line == Head(sw.pending)
  IN  <<<<line[1][1] + 2 * sw.cx, line[1][2] + 2 * sw.cy>>,
        <<line[2][1] + 2 * sw.cx, line[2][2] + 2 * sw.cy>>>>

Stitched == Len(CASES[sw.code + 1]) - Len(sw.pending)

LastSegment ==
  LET line == CASES[sw.code + 1][Stitched]
  IN  <<<<line[1][1] + 2 * sw.cx, line[1][2] + 2 * sw.cy>>,
        <<line[2][1] + 2 * sw.cx, line[2][2] + 2 * sw.cy>>>>

Stitching == call = "compute" /\ pc = "idle" /\ sw.status = "Ok" /\ sw.pending # << >>

Live(b) == {SlabGet(b.f, k) : k \in SlabLive(b.f)}

EndingAt(b, key) == {k \in SlabLive(b.f) : SlabGet(b.f, k).end = key}

StartingAt(b, key) == {k \in SlabLive(b.f) : SlabGet(b.f, k).start = key}

\* The stitch of the next segment joins fragment f_ix, which ends at the
\* segment's start, to a different fragment g_ix, which starts at its end.
Merges(f_ix, g_ix) ==
  /\ Stitching
  /\ f_ix \in EndingAt(sw.b, Index(sw.b, NextSegment[1]))
  /\ g_ix \in StartingAt(sw.b, Index(sw.b, NextSegment[2]))
  /\ f_ix # g_ix

MergeEffect(f_ix, g_ix) ==
  LET b == sw.b
      after == sw'.b
      f == SlabGet(b.f, f_ix)
      g == SlabGet(b.f, g_ix)
      merged == Fragment(f.start, g.end, f.ring \o g.ring)
  IN  /\ sw'.status = "Ok"
      /\ \E ix \in SlabLive(after.f) :
           /\ SlabGet(after.f, ix) = merged
           /\ MapHas(after.fragment_by_start, f.start)
           /\ after.fragment_by_start[f.start] = ix
           /\ MapHas(after.fragment_by_end, g.end)
           /\ after.fragment_by_end[g.end] = ix
      /\ Live(after) = (Live(b) \ {f, g}) \cup {merged}
      /\ Cardinality(SlabLive(after.f)) = Cardinality(SlabLive(b.f)) - 1
      /\ \A k \in SlabLive(b.f) \ {f_ix, g_ix} :
           SlabContains(after.f, k) /\ SlabGet(after.f, k) = SlabGet(b.f, k)
      /\ DOMAIN after.fragment_by_start = DOMAIN b.fragment_by_start \ {g.start}
      /\ DOMAIN after.fragment_by_end = DOMAIN b.fragment_by_end \ {f.end}
      /\ \A key \in DOMAIN after.fragment_by_start \ {f.start} :
           after.fragment_by_start[key] = b.fragment_by_start[key]
      /\ \A key \in DOMAIN after.fragment_by_end \ {g.end} :
           after.fragment_by_end[key] = b.fragment_by_end[key]
      /\ sw'.result = sw.result

\* C18: a stitch whose segment starts at the end of a fragment F and ends
\* at the start of a different fragment G leaves one fragment in their
\* place, with F's points followed by G's, F's start and G's end; both
\* maps lead to it, F and G are gone, no ring is emitted and no other
\* fragment or map entry changes.
C18_MergeFrame ==
  [][\A f_ix \in SlabLive(sw.b.f), g_ix \in SlabLive(sw.b.f) :
       Merges(f_ix, g_ix) => MergeEffect(f_ix, g_ix)]_vars

\* The segment just stitched lies inside the ring of an open fragment:
\* two fragments were joined by it, next to a third that stayed.
C18_Witness ==
  /\ call = "compute" /\ pc = "idle" /\ sw.status = "Ok"
  /\ Stitched >= 1
  /\ Cardinality(SlabLive(sw.b.f)) >= 2
  /\ \E k \in SlabLive(sw.b.f) :
       LET ring == SlabGet(sw.b.f, k).ring
       IN  \E n \in 2..(Len(ring) - 2) :
             ring[n] = LastSegment[1] /\ ring[n + 1] = LastSegment[2]

\* The stitch of the next segment closes fragment f_ix: the segment starts
\* at the fragment's end and ends at its start.
Closes(f_ix) ==
  /\ Stitching
  /\ f_ix \in EndingAt(sw.b, Index(sw.b, NextSegment[1]))
  /\ f_ix \in StartingAt(sw.b, Index(sw.b, NextSegment[2]))

CloseEffect(f_ix) ==
  LET b == sw.b
      after == sw'.b
      f == SlabGet(b.f, f_ix)
  IN  /\ sw'.status = "Ok"
      /\ ~SlabContains(after.f, f_ix)
      /\ SlabLive(after.f) = SlabLive(b.f) \ {f_ix}
      /\ \A k \in SlabLive(after.f) : SlabGet(after.f, k) = SlabGet(b.f, k)
      /\ ~MapHas(after.fragment_by_start, f.start)
      /\ ~MapHas(after.fragment_by_end, f.end)
      /\ \A key \in DOMAIN after.fragment_by_start : after.fragment_by_start[key] # f_ix
      /\ \A key \in DOMAIN after.fragment_by_end : after.fragment_by_end[key] # f_ix
      /\ sw'.result = Append(sw.result, Append(f.ring, NextSegment[2]))

NoneMeets ==
  call = "compute"
    => \A k \in SlabLive(sw.b.f) : SlabGet(sw.b.f, k).start # SlabGet(sw.b.f, k).end

\* C19: in every state of a sweep no fragment of the store has its start
\* key equal to its end key; a stitch whose segment runs from a fragment's
\* end to the same fragment's start takes the fragment out of the slab and
\* out of both maps and appends exactly one ring, the fragment's points
\* and the segment's end, to the result.
C19_ClosedLeavesStore ==
  /\ []NoneMeets
  /\ [][\A f_ix \in SlabLive(sw.b.f) : Closes(f_ix) => CloseEffect(f_ix)]_vars

\* The segment just stitched closed a ring, now the last of the result,
\* while another fragment stayed open.
C19_Witness ==
  /\ call = "compute" /\ pc = "idle" /\ sw.status = "Ok"
  /\ Stitched >= 1
  /\ sw.result # << >>
  /\ Len(Last(sw.result)) >= 5
  /\ Last(Last(sw.result)) = LastSegment[2]
  /\ Last(sw.result)[Len(Last(sw.result)) - 1] = LastSegment[1]
  /\ SlabLive(sw.b.f) # {}

\* map leads from key to fragment i exactly when i is live and has key at
\* the given end.
InSync(b, map, At(_, _)) ==
  /\ \A key \in DOMAIN map : map[key] \in At(b, key)
  /\ \A i \in SlabLive(b.f) :
       \A key \in {SlabGet(b.f, i).start, SlabGet(b.f, i).end} :
         i \in At(b, key) => (MapHas(map, key) /\ map[key] = i)

KeysOfEnds(b) ==
  \A i \in SlabLive(b.f) :
    LET f == SlabGet(b.f, i)
    IN  /\ f.ring # << >>
        /\ f.start = Index(b, f.ring[1])
        /\ f.end = Index(b, Last(f.ring))

MapsInSync ==
  call = "compute"
    => /\ InSync(sw.b, sw.b.fragment_by_start, StartingAt)
       /\ InSync(sw.b, sw.b.fragment_by_end, EndingAt)
       /\ KeysOfEnds(sw.b)

\* An entry of the map that a stitch gave another value belonged to a
\* fragment the stitch took out of the slab.
NoOverwrite(before, after, slab) ==
  \A key \in DOMAIN before \cap DOMAIN after :
    before[key] # after[key] => ~SlabContains(slab, before[key])

\* C20: in every state of a sweep, fragment_by_start leads from key k to
\* fragment i exactly when i is a live fragment whose start is k, and
\* fragment_by_end exactly when i is a live fragment whose end is k; the
\* start and end of a live fragment are the keys of the first and last
\* point of its ring; and no stitch gives an entry of another live
\* fragment a new value.
C20_MapsInSync ==
  /\ []MapsInSync
  /\ [][Stitching
          => /\ NoOverwrite(sw.b.fragment_by_start, sw'.b.fragment_by_start, sw'.b.f)
             /\ NoOverwrite(sw.b.fragment_by_end, sw'.b.fragment_by_end, sw'.b.f)]_vars

\* A stitch has just been made; a ring has been closed, and of the
\* fragments still open one has grown beyond its first segment.
C20_Witness ==
  /\ call = "compute" /\ pc = "idle" /\ sw.status = "Ok"
  /\ Stitched >= 1
  /\ sw.result # << >>
  /\ Cardinality(SlabLive(sw.b.f)) >= 2
  /\ Cardinality(DOMAIN sw.b.fragment_by_start) >= 2
  /\ \E k \in SlabLive(sw.b.f) : Len(SlabGet(sw.b.f, k).ring) >= 3

(***************************************************************************)
(* The end of the sweep.                                                   *)
(***************************************************************************)
RECURSIVE SegmentsOf(_)
\* The number of segments of the cells looked up.
SegmentsOf(cells) ==
  IF cells = << >> THEN 0
  ELSE Len(CASES[Head(cells)[3] + 1]) + SegmentsOf(Tail(cells))

RECURSIVE StepsOf(_)
\* The number of point-to-point steps of the rings.
StepsOf(rs) ==
  IF rs = << >> THEN 0 ELSE (Len(Head(rs)) - 1) + StepsOf(Tail(rs))

\* C21: when the sweep has returned, no fragment is live in the slab and
\* both maps are empty; the rings returned are closed and their steps are
\* as many as the segments of the cells of the sweep.
C21_NothingOpenAtEnd ==
  (call = "compute" /\ pc = "returned")
    => /\ SlabLive(isoring.f) = {}
       /\ DOMAIN isoring.fragment_by_start = {}
       /\ DOMAIN isoring.fragment_by_end = {}
       /\ \A n \in 1..Len(rings) :
            Len(rings[n]) >= 2 /\ rings[n][1] = Last(rings[n])
       /\ StepsOf(rings) = SegmentsOf(visited)

\* A sweep has returned two rings or more; slots of the slab were in use
\* and have all been given back.
C21_Witness ==
  /\ call = "compute" /\ pc = "returned"
  /\ Len(rings) >= 2
  /\ Len(isoring.f.entries) >= 2
  /\ SegmentsOf(visited) >= 8

\* C22: on a grid of dx * dy samples, dx, dy >= 1, no step of the sweep
\* ends in the Unexpected error or in a panic (a sample read outside the
\* slice, a fragment missing from the slab); until the sweep has returned
\* a next step exists, and it returns Ok.
C22_SweepCompletesOk ==
  (call = "compute" /\ dx >= 1 /\ dy >= 1 /\ Len(values) = dx * dy)
    => /\ sw.status = "Ok"
       /\ pc # "returned" => ENABLED SweepNext
       /\ pc = "returned" => (outcome = "Ok" /\ sw.pc = "done")

\* A sweep over rows between the first and the last has looked every
\* cell up and returned Ok with a ring.
C22_Witness ==
  /\ call = "compute" /\ pc = "returned" /\ outcome = "Ok"
  /\ dx >= 2 /\ dy >= 3
  /\ Len(visited) = (dx + 1) * (dy + 1)
  /\ Len(rings) >= 1

(***************************************************************************)
(* stitch and a fragment that is missing from the slab.                    *)
(***************************************************************************)
StartKey == Index(sw.b, NextSegment[1])

EndKey == Index(sw.b, NextSegment[2])

\* The next stitch looks a fragment up that the slab does not have.
Hits ==
  /\ Stitching
  /\ \/ Dangling(sw.b, sw.b.fragment_by_end, StartKey)
     \/ Dangling(sw.b, sw.b.fragment_by_start, EndKey)

\* Both ends of the segment match: the branch that closes or merges.
JoinBranch ==
  MapHas(sw.b.fragment_by_end, StartKey) /\ MapHas(sw.b.fragment_by_start, EndKey)

Lattice == (0..(2 * dx)) \X (0..(2 * dy))

\* C24: the two points of the segment a stitch takes lie on the lattice,
\* and no other point of the lattice has the key of either; a fragment
\* that has the key of the segment's start as its end ends in that very
\* point, and one that has the key of the segment's end as its start
\* starts in that very point, whichever cells' segments it was made of.
C24_KeysCollisionFree ==
  Stitching
    => /\ \A n \in 1..2 :
            /\ NextSegment[n] \in Lattice
            /\ \A q \in Lattice :
                 Index(sw.b, q) = Index(sw.b, NextSegment[n]) => q = NextSegment[n]
       /\ \A k \in EndingAt(sw.b, StartKey) :
            Last(SlabGet(sw.b.f, k).ring) = NextSegment[1]
       /\ \A k \in StartingAt(sw.b, EndKey) :
            SlabGet(sw.b.f, k).ring[1] = NextSegment[2]

\* A segment that ends on the right rim of the grid, below its first row,
\* is about to be stitched to the fragment that starts there, made of the
\* segments of other cells.
C24_Witness ==
  /\ Stitching
  /\ NextSegment[2][1] = 2 * dx /\ NextSegment[2][2] >= 2
  /\ \E k \in StartingAt(sw.b, EndKey) : Len(SlabGet(sw.b.f, k).ring) >= 3

(***************************************************************************)
(* The segments stitched and the points kept.                              *)
(***************************************************************************)
\* The k-th segment of a cell looked up, as points of the grid.
CellSegment(cell, k) ==
  LET line == CASES[cell[3] + 1][k]
  IN  <<<<line[1][1] + 2 * cell[1], line[1][2] + 2 * cell[2]>>,
        <<line[2][1] + 2 * cell[1], line[2][2] + 2 * cell[2]>>>>

\* The directed segments stitched so far: all those of the cells before
\* the last one looked up, and those of the last one no longer pending.
StitchedSoFar ==
  UNION {{CellSegment(visited[n], k) :
            k \in 1..(IF n = Len(visited) THEN Stitched
                      ELSE Len(CASES[visited[n][3] + 1]))} :
           n \in 1..Len(visited)}

Occupies(e) == e.tag = "occupied"

\* The point sequences kept: the rings completed and those of the
\* fragments in the slab.
RECURSIVE RingsOf(_)
RingsOf(entries) ==
  IF entries = << >> THEN << >>
  ELSE <<Head(entries).val.ring>> \o RingsOf(Tail(entries))

Chains == sw.result \o RingsOf(SelectSeq(sw.b.f.entries, Occupies))

\* The steps from a point of a chain to the next one.
Pairs(chains) ==
  UNION {{<<chains[c][n], chains[c][n + 1]>> : n \in 1..(Len(chains[c]) - 1)} :
           c \in 1..Len(chains)}

\* C25: in every state of a sweep, the steps of the completed rings and of
\* the open fragments are exactly the directed segments stitched so far,
\* each in its direction, and their number is the number of segments
\* stitched: none is lost, doubled or turned round.
C25_SegmentsConserved ==
  (call = "compute" /\ sw.status = "Ok")
    => /\ StepsOf(Chains) = SegmentsOf(visited) - Len(sw.pending)
       /\ Pairs(Chains) = StitchedSoFar
       /\ Cardinality(StitchedSoFar) = SegmentsOf(visited) - Len(sw.pending)

\* Eight segments or more have been stitched; a ring is complete and a
\* fragment of four points or more is still open.
C25_Witness ==
  /\ call = "compute" /\ pc = "idle" /\ sw.status = "Ok"
  /\ SegmentsOf(visited) - Len(sw.pending) >= 8
  /\ sw.result # << >>
  /\ \E k \in SlabLive(sw.b.f) : Len(SlabGet(sw.b.f, k).ring) >= 4

=============================================================================
